---- MODULE Spec2Model ----
(***************************************************************************)
(* PinePulse weekly store dashboard (src/main.py).                         *)
(*                                                                         *)
(* The script loads the transaction CSVs once (load_data, cached), lets    *)
(* the user pick a store category and a store, and on "Generate Report"    *)
(* filters the rows of that store, shows the metrics, aggregates sales per *)
(* product, splits the products into a top and a bottom 30% segment,       *)
(* charts both and serializes them for the SKU prompt. Building that       *)
(* prompt (lines 100-113) raises ValueError in every run: the f-string     *)
(* holds the text {"sku": string, "action": string}, which Python reads as *)
(* a replacement field with a format specification no str accepts. The     *)
(* exception is not handled, so the run ends there; lines 115-241 (the     *)
(* LLM calls, the recommendations, the footfall and category charts, the   *)
(* sidebar panels) are reached by no run.                                  *)
(*                                                                         *)
(* Modelling conventions                                                   *)
(*  - a DataFrame is a record [columns, rows]; a row is a function from    *)
(*    column names to values; the column "Txn Amount (Rs)" is spelled      *)
(*    "Txn Amount" here;                                                   *)
(*  - a product name is modelled by its rank in lexical order (1, 2, ...), *)
(*    so that "sorted by name" is "sorted by number";                      *)
(*  - amounts are naturals; a timestamp is a number of hours since a       *)
(*    Monday 00:00;                                                        *)
(*  - a missing cell of the CSV is NaN, which is unequal to everything,    *)
(*    itself included (PdEq).                                              *)
(***************************************************************************)
EXTENDS Integers, Sequences, FiniteSets, TLC

\* ------------------------------------------------------------------ bounds
MaxProducts == 4   \* distinct product names of the bounded input frames
MaxAmount   == 3   \* largest amount of one transaction row
MaxRows     == 4   \* rows of a bounded input frame

VARIABLES
    all_data,       \* load_data(): store category -> DataFrame (cached)
    pc,             \* position of the script run
    store_type,     \* sidebar selectbox "Store Category"
    store_name,     \* sidebar selectbox "Store Name"
    df,             \* rows of the selected store (local of the run)
    metrics,        \* total_sales, num_txn, unique_products
    sku_sales,      \* per product totals
    top_df,         \* top segment
    bottom_df,      \* bottom segment
    top_info,       \* serialized top segment
    bottom_info,    \* serialized bottom segment
    llm_requests,   \* requests sent to client.chat.completions.create
    page,           \* elements rendered by this run, in order
    error,          \* the unhandled exception that ended the run, or NoError
    first_report    \* history: the selection of the first report generated

vars == <<all_data, pc, store_type, store_name, df, metrics, sku_sales, top_df,
          bottom_df, top_info, bottom_info, llm_requests, page, error,
          first_report>>

\* ------------------------------------------------------------------ values
NaN     == "nan"
None    == "None"
NoError == "NoError"

PdIsNa(v) == v = NaN
\* pandas ==: NaN compares unequal to everything
PdEq(a, b) == ~PdIsNa(a) /\ ~PdIsNa(b) /\ a = b

Max(a, b) == IF a >= b THEN a ELSE b
Min(a, b) == IF a <= b THEN a ELSE b

Range(s) == {s[i] : i \in 1..Len(s)}

Reverse(s) == [i \in 1..Len(s) |-> s[Len(s) + 1 - i]]

RECURSIVE SumSeq(_)
SumSeq(s) == IF s = <<>> THEN 0 ELSE Head(s) + SumSeq(Tail(s))

\* ------------------------------------------------------------------ csv_paths
CsvNames == <<"Kirana", "Chemist", "Cafe", "Clothes">>

CsvColumns == <<"Timestamp", "Store Name", "Product Name", "Product Category",
                "Txn Amount">>

\* ------------------------------------------------------------------ frames
\* numpy argsort(kind="mergesort"): a stable sort of the index list ns by arr
RECURSIVE InsertStable(_, _, _)
InsertStable(i, s, arr) ==
    IF s = <<>> THEN <<i>>
    ELSE IF arr[Head(s)] <= arr[i]
         THEN <<Head(s)>> \o InsertStable(i, Tail(s), arr)
         ELSE <<i>> \o s

RECURSIVE ArgsortStable(_, _)
ArgsortStable(ns, arr) ==
    IF ns = <<>> THEN <<>>
    ELSE InsertStable(ns[Len(ns)],
                      ArgsortStable(SubSeq(ns, 1, Len(ns) - 1), arr), arr)

Indices(s) == [i \in 1..Len(s) |-> i]

Take(s, idx) == [i \in 1..Len(idx) |-> s[idx[i]]]

\* Series.unique(): the distinct values in order of first appearance; every
\* NaN is the same missing value
Unique(s) ==
    LET first == SelectSeq(Indices(s),
                     LAMBDA i : \A j \in 1..(i - 1) : s[j] # s[i])
    IN  Take(s, first)

Column(rows, c) == [i \in 1..Len(rows) |-> rows[i][c]]

\* df_all[df_all["Store Name"] == store_name]: boolean indexing returns a new
\* frame holding copies of the selected rows
Filter(frame, name) ==
    [columns |-> frame.columns,
     rows    |-> SelectSeq(frame.rows, LAMBDA r : PdEq(r["Store Name"], name))]

\* df.groupby(key)[value].sum().reset_index(): one row per distinct key, in
\* sorted key order (groupby sorts its keys), holding the sum of the values.
\* The key is present in every row of the frames checked (groupby drops the
\* rows whose key is NaN).
GroupBySum(frame, key, value) ==
    LET keys   == Unique(Column(frame.rows, key))
        sorted == Take(keys, ArgsortStable(Indices(keys), keys))
    IN  [i \in 1..Len(sorted) |->
            (key :> sorted[i]) @@
            (value :> SumSeq(Column(SelectSeq(frame.rows,
                                 LAMBDA r : r[key] = sorted[i]), value)))]

\* math.ceil(n * 0.3). The double nearest 0.3 is below 0.3, so the product is
\* rounded to 3n/10 when that is an integer and lies strictly between two
\* integers otherwise: the result is the exact ceiling of 3n/10.
CeilFraction(n) == (3 * n + 9) \div 10

\* faulty variants: the floor in place of the ceiling; a fraction of 0.6
TopNFloor(n) == Max(1, (3 * n) \div 10)
TopNWide(n) == Max(1, (6 * n + 9) \div 10)

\* top_n = max(1, math.ceil(n * 0.3))
TopN(n) == Max(1, CeilFraction(n))

\* algos.kth_smallest(arr, k): the value at 0-based position k of sorted arr
KthSmallest(arr, k) == arr[ArgsortStable(Indices(arr), arr)[k + 1]]

\* SelectNSeries.compute with keep="first" on the column arr, where arr is the
\* column itself for nsmallest and its negation for nlargest: the row
\* positions selected, in output order.
\*   n >= len: sort_values(ascending).head(n)   (reached only with len <= 1
\*             from this script, as top_n < n for n >= 2)
\*   else:     kth_val = kth_smallest(arr, n - 1); ns = nonzero(arr <= kth_val)
\*             inds = ns[arr[ns].argsort(kind="mergesort")][:n]
SelectN(n, arr) ==
    IF n >= Len(arr)
    THEN ArgsortStable(Indices(arr), arr)
    ELSE LET kth_val == KthSmallest(arr, n - 1)
             ns      == SelectSeq(Indices(arr), LAMBDA i : arr[i] <= kth_val)
             inds    == ArgsortStable(ns, arr)
         IN  SubSeq(inds, 1, n)

Negate(arr) == [i \in 1..Len(arr) |-> 0 - arr[i]]

\* faulty variants of the selection: keep="last" on tied rows; head() without
\* a sort
SelectNKeepLast(n, arr) ==
    LET rev  == Reverse(arr)
        inds == SelectN(n, rev)
    IN  [i \in 1..Len(inds) |-> Len(arr) + 1 - inds[i]]

NLargestKeepLast(n, rows) ==
    Take(rows, SelectNKeepLast(n, Negate(Column(rows, "Txn Amount"))))

NLargestHead(n, rows) == SubSeq(rows, 1, Min(n, Len(rows)))

NSmallestKeepLast(n, rows) ==
    Take(rows, SelectNKeepLast(n, Column(rows, "Txn Amount")))

\* sku_sales.nlargest(top_n, "Txn Amount")
NLargest(n, rows) == Take(rows, SelectN(n, Negate(Column(rows, "Txn Amount"))))

\* sku_sales.nsmallest(top_n, "Txn Amount")
NSmallest(n, rows) == Take(rows, SelectN(n, Column(rows, "Txn Amount")))

\* .rename(columns={"Txn Amount": "sales"})[["Product Name", "sales"]]
\* .to_dict(orient="records")
ToDictRecords(rows) ==
    [i \in 1..Len(rows) |->
        ("Product Name" :> rows[i]["Product Name"]) @@
        ("sales" :> rows[i]["Txn Amount"])]

\* ------------------------------------------------------------------ sidebar
\* Python's order on the store names the sample files use
LexRank(name) ==
    CASE name = "Anand Stores" -> 1
      [] name = "Balaji Mart"  -> 2
      [] name = "City Cafe"    -> 3
      [] OTHER                 -> 4

\* sorted(...) raises TypeError when it has to compare a NaN (a float) with a
\* store name (a str)
Sortable(names) == Len(names) <= 1 \/ \A i \in 1..Len(names) : ~PdIsNa(names[i])

\* sorted(df_all["Store Name"].unique())
Stores(df_all) ==
    LET u == Unique(Column(df_all.rows, "Store Name"))
    IN  Take(u, ArgsortStable(Indices(u), [i \in 1..Len(u) |-> LexRank(u[i])]))

\* df["Product Name"].nunique()
NUnique(rows, c) == Cardinality(Range(Column(rows, c)))

NoFrame == [columns |-> <<>>, rows |-> <<>>]
NoHistory == [set |-> FALSE, selection |-> <<None, None>>]
NoMetrics == [total_sales |-> 0, num_txn |-> 0, unique_products |-> 0]

Selection(t, s) == <<t, s>>

\* ------------------------------------------------------------------ the prompt
\* a replacement field {expression:spec} of an f-string, with the value of its
\* expression
Field(value, spec) == [value |-> value, spec |-> spec]

\* The replacement fields of sku_prompt in the order of the text: the two
\* json.dumps(...) of lines 102 and 105, and on lines 111 and 112 the text
\* {"sku": string, "action": string}, which in an f-string is the expression
\* "sku" followed by the format specification ' string, "action": string'.
SkuPromptFields(tinfo, binfo) ==
    <<Field(tinfo, ""),
      Field(binfo, ""),
      Field("sku", " string, \"action\": string"),
      Field("sku", " string, \"action\": string")>>

\* format(value, spec) of a str: the empty specification is str(value); of the
\* non-empty ones str accepts [[fill]align][width][.precision][s] only, which
\* no field of this script is, and raises ValueError on the others
FormatError(field) == IF field.spec = "" THEN NoError ELSE "ValueError"

\* an f-string formats its fields from left to right; the first exception
\* ends the evaluation
RECURSIVE FStringError(_)
FStringError(fields) ==
    IF fields = <<>> THEN NoError
    ELSE IF FormatError(Head(fields)) # NoError THEN FormatError(Head(fields))
    ELSE FStringError(Tail(fields))

\* ------------------------------------------------------------------ the run
\* a faulty variant: the rows are filtered in the loaded frame itself
FilteredInPlace(data, t, frame) == [data EXCEPT ![t] = frame]

\* What line 47 does to the frames load_data returned: boolean indexing makes
\* a new frame and leaves the indexed one as it was.
SourceAfterFilter(data, t, frame) == data

\* Lines 41-44 when the selected category holds both named and unnamed stores:
\* sorted() raises and the run ends before the button is drawn.
SidebarTypeError(t) ==
    /\ pc = "idle"
    /\ t \in DOMAIN all_data
    /\ ~Sortable(Unique(Column(all_data[t].rows, "Store Name")))
    /\ store_type' = t
    /\ pc' = "aborted"
    /\ error' = "TypeError"
    /\ UNCHANGED <<all_data, store_name, df, metrics, sku_sales, top_df, bottom_df,
                   top_info, bottom_info, llm_requests, page, first_report>>

\* Lines 41-124: the user has picked category t and store s and presses
\* "Generate Report"; the run filters, shows the metrics, aggregates, charts
\* both segments, serializes them and builds the SKU prompt. create() of line
\* 116 is called with the prompt once it is built; the exception of the
\* f-string ends the run before it.
GenerateReport(t, s) ==
    /\ pc = "idle"
    /\ t \in DOMAIN all_data
    /\ LET df_all == all_data[t]
       IN  /\ Sortable(Unique(Column(df_all.rows, "Store Name")))
           /\ s \in Range(Stores(df_all))
           /\ df' = Filter(df_all, s)
    /\ all_data' = SourceAfterFilter(all_data, t, df')
    /\ metrics' = [total_sales     |-> SumSeq(Column(df'.rows, "Txn Amount")),
                   num_txn         |-> Len(df'.rows),
                   unique_products |-> NUnique(df'.rows, "Product Name")]
    /\ sku_sales' = GroupBySum(df', "Product Name", "Txn Amount")
    /\ top_df' = NLargest(TopN(Len(sku_sales')), sku_sales')
    /\ bottom_df' = NSmallest(TopN(Len(sku_sales')), sku_sales')
    /\ page' = <<[kind |-> "metrics", data |-> metrics'],
                 [kind |-> "markdown", data |-> "---"],
                 [kind |-> "chart_top", data |-> top_df'],
                 [kind |-> "chart_bot", data |-> bottom_df']>>
    /\ top_info' = ToDictRecords(top_df')
    /\ bottom_info' = ToDictRecords(bottom_df')
    /\ error' = FStringError(SkuPromptFields(top_info', bottom_info'))
    /\ IF error' # NoError
       THEN /\ pc' = "aborted"
            /\ UNCHANGED llm_requests
       ELSE /\ pc' = "await_sku"
            /\ llm_requests' = <<[stage |-> "sku", top |-> top_info',
                                  bottom |-> bottom_info']>>
    /\ first_report' =
          IF ~first_report.set
          THEN [set |-> TRUE, selection |-> Selection(t, s)]
          ELSE first_report
    /\ store_type' = t
    /\ store_name' = s

\* The user touches a widget, after the run has ended or while it waits in
\* create(): Streamlit abandons the run and runs the script from the top;
\* load_data() answers from its cache.
Rerun ==
    /\ pc \in {"aborted", "await_sku"}
    /\ pc' = "idle"
    /\ store_type' = None
    /\ store_name' = None
    /\ df' = NoFrame
    /\ metrics' = NoMetrics
    /\ sku_sales' = <<>>
    /\ top_df' = <<>>
    /\ bottom_df' = <<>>
    /\ top_info' = <<>>
    /\ bottom_info' = <<>>
    /\ llm_requests' = <<>>
    /\ page' = <<>>
    /\ error' = NoError
    /\ UNCHANGED <<all_data, first_report>>

\* ------------------------------------------------------------------ inputs
\* row i of a CSV: the transactions are logged seven hours apart, and a
\* product of odd rank is of category 1, one of even rank of category 2
Row(i, store, product, amount) ==
    ("Timestamp" :> 9 + 7 * i) @@ ("Store Name" :> store) @@
    ("Product Name" :> product) @@ ("Product Category" :> 2 - (product % 2)) @@
    ("Txn Amount" :> amount)

\* list: <<store, product, amount>> per row
MkFrame(list) ==
    [columns |-> CsvColumns,
     rows    |-> [i \in 1..Len(list) |-> Row(i, list[i][1], list[i][2], list[i][3])]]

RowKey(r) == r[2] * (MaxAmount + 1) + r[3]

\* every non-empty list of at most n rows of one store, in descending
\* (product, amount) order
RECURSIVE RowLists(_)
RowLists(n) ==
    IF n = 0 THEN {<<>>}
    ELSE LET shorter == RowLists(n - 1)
         IN  shorter \cup
             {Append(p[1], p[2]) :
                 p \in {q \in {x \in shorter : Len(x) = n - 1} \X
                               ({"Anand Stores"} \X (1..MaxProducts) \X (0..MaxAmount)) :
                           q[1] = <<>> \/ RowKey(q[1][Len(q[1])]) >= RowKey(q[2])}}


InitRun ==
    /\ pc = "idle"
    /\ store_type = None
    /\ store_name = None
    /\ df = NoFrame
    /\ metrics = NoMetrics
    /\ sku_sales = <<>>
    /\ top_df = <<>>
    /\ bottom_df = <<>>
    /\ top_info = <<>>
    /\ bottom_info = <<>>
    /\ llm_requests = <<>>
    /\ page = <<>>
    /\ error = NoError
    /\ first_report = NoHistory

\* One category file of one store, its rows in either order. A file that
\* load_data returns holds at least one row here: read_csv leaves the columns
\* of a header-only file untyped, which no claim checked is about.
InitSeg ==
    /\ \E l \in RowLists(MaxRows) \ {<<>>}, rev \in BOOLEAN :
          all_data = ("Kirana" :> MkFrame(IF rev THEN Reverse(l) ELSE l))
    /\ InitRun

NextSeg == \E t \in Range(CsvNames), s \in {"Anand Stores"} : GenerateReport(t, s)

SpecSeg == InitSeg /\ [][NextSeg]_vars

\* ------------------------------------------------------------------ the app
\* The content of a category file in the deployments checked: two stores with
\* tied and repeated products; a file whose Store Name column is blank in
\* every row; a file with a blank Store Name in one row.
SampleFrames ==
    <<MkFrame(<<<<"Anand Stores", 2, 2>>, <<"Balaji Mart", 1, 1>>,
                <<"Anand Stores", 1, 2>>, <<"Balaji Mart", 1, 2>>,
                <<"Balaji Mart", 3, 1>>, <<"Anand Stores", 3, 3>>,
                <<"Anand Stores", 4, 3>>>>),
      MkFrame(<<<<NaN, 1, 2>>, <<NaN, 2, 1>>>>),
      MkFrame(<<<<"City Cafe", 1, 1>>, <<NaN, 2, 2>>>>)>>

Init ==
    /\ \E present \in SUBSET Range(CsvNames) :
          all_data \in [present -> Range(SampleFrames)]
    /\ InitRun

Next ==
    \/ \E t \in Range(CsvNames) : SidebarTypeError(t)
    \/ \E t \in Range(CsvNames), s \in {"Anand Stores", "Balaji Mart", "City Cafe", NaN} :
          GenerateReport(t, s)
    \/ Rerun

Spec == Init /\ [][Next]_vars

\* ------------------------------------------------------------------ claims
\* the current run has computed, charted and serialized both segments
HasReport == store_name # None

\* the distinct items of the filtered record set
Items == {df.rows[i]["Product Name"] : i \in 1..Len(df.rows)}

\* the sum of amount over all records of item p
ItemTotal(p) ==
    LET idx == {i \in 1..Len(df.rows) : df.rows[i]["Product Name"] = p}
        f[S \in SUBSET idx] ==
            IF S = {} THEN 0
            ELSE LET i == CHOOSE x \in S : TRUE
                 IN  df.rows[i]["Txn Amount"] + f[S \ {i}]
    IN  f[idx]

\* max(1, ceil(n * 0.3)) for n >= 1: the least k >= 1 with 10 k >= 3 n
SegmentSize(n) == CHOOSE k \in 1..n : 10 * k >= 3 * n /\ (k = 1 \/ 10 * (k - 1) < 3 * n)

Members(seg) == {seg[i]["Product Name"] : i \in 1..Len(seg)}

PairwiseDistinctTotals == \A p, q \in Items : p # q => ItemTotal(p) # ItemTotal(q)

\* C1: for a non-empty record set with n distinct items, the top and the
\* bottom segment both have exactly max(1, ceil(n * 0.3)) members.
C1_SegmentSize ==
    (HasReport /\ df.rows # <<>>) =>
        /\ Len(top_df) = SegmentSize(Cardinality(Items))
        /\ Len(bottom_df) = SegmentSize(Cardinality(Items))

C1_Witness ==
    /\ HasReport
    /\ Cardinality(Items) = 4
    /\ Len(top_df) = 2
    /\ Len(bottom_df) = 2

\* every member is an item of the record set carrying the sum of its amounts,
\* and no item is listed twice
SegmentOfTotals(seg) ==
    /\ \A i \in 1..Len(seg) :
          /\ seg[i]["Product Name"] \in Items
          /\ seg[i]["Txn Amount"] = ItemTotal(seg[i]["Product Name"])
    /\ \A i, j \in 1..Len(seg) : i # j => seg[i]["Product Name"] # seg[j]["Product Name"]

\* C2: the top segment is the first k items by descending total_sales (its
\* totals are non-increasing and no item outside it has a strictly greater
\* total than a member), the bottom segment the first k by ascending
\* total_sales, where total_sales is the sum of amount over the item's records.
C2_SegmentsSorted ==
    (HasReport /\ df.rows # <<>>) =>
        /\ SegmentOfTotals(top_df)
        /\ SegmentOfTotals(bottom_df)
        /\ \A i, j \in 1..Len(top_df) :
              i < j => top_df[i]["Txn Amount"] >= top_df[j]["Txn Amount"]
        /\ \A i, j \in 1..Len(bottom_df) :
              i < j => bottom_df[i]["Txn Amount"] <= bottom_df[j]["Txn Amount"]
        /\ \A p \in Items \ Members(top_df) : \A i \in 1..Len(top_df) :
              ItemTotal(p) <= top_df[i]["Txn Amount"]
        /\ \A p \in Items \ Members(bottom_df) : \A i \in 1..Len(bottom_df) :
              ItemTotal(p) >= bottom_df[i]["Txn Amount"]

\* totals A = 3, B = 1, C = 2 with one item sold twice: top = [A], bottom = [B]
C2_Witness ==
    /\ HasReport
    /\ Len(df.rows) = 4
    /\ Items = {1, 2, 3}
    /\ ItemTotal(1) = 3 /\ ItemTotal(2) = 1 /\ ItemTotal(3) = 2
    /\ Members(top_df) = {1}
    /\ Members(bottom_df) = {2}

Position(seg, p) == CHOOSE i \in 1..Len(seg) : seg[i]["Product Name"] = p

TieBrokenLexically(seg) ==
    \A p, q \in Items :
        (p < q /\ ItemTotal(p) = ItemTotal(q) /\ q \in Members(seg)) =>
            /\ p \in Members(seg)
            /\ Position(seg, p) < Position(seg, q)

\* C3: among items of equal total_sales the lexically earlier one is selected
\* first and listed first, in the top segment and in the bottom segment.
C3_TiesLexical ==
    HasReport => TieBrokenLexically(top_df) /\ TieBrokenLexically(bottom_df)

\* four items; a tie straddles the cut of the top segment and another pair of
\* tied items is listed inside the bottom segment
C3_Witness ==
    /\ HasReport
    /\ Cardinality(Items) = 4
    /\ \E p, q \in Items :
          /\ p < q /\ ItemTotal(p) = ItemTotal(q)
          /\ p \in Members(top_df) /\ q \notin Members(top_df)
    /\ \E p, q \in Items :
          /\ p < q /\ ItemTotal(p) = ItemTotal(q)
          /\ {p, q} \subseteq Members(bottom_df)

\* C10: with n >= 2 distinct items of pairwise distinct total_sales no item is
\* a member of both segments, and twice the segment size is at most n.
C10_NoOverlap ==
    (HasReport /\ Cardinality(Items) >= 2 /\ PairwiseDistinctTotals) =>
        /\ Members(top_df) \cap Members(bottom_df) = {}
        /\ 2 * Len(top_df) <= Cardinality(Items)

C10_Witness ==
    /\ HasReport
    /\ Cardinality(Items) = 4
    /\ PairwiseDistinctTotals
    /\ Len(top_df) = 2
    /\ Members(top_df) \cap Members(bottom_df) = {}


IsChart(e) == e.kind \in {"chart_top", "chart_bot"}

\* C5: when the filtered record set is empty no top or bottom segment is
\* charted and no recommendation request is sent.
C5_EmptyInputRejected ==
    (HasReport /\ df.rows = <<>>) =>
        /\ llm_requests = <<>>
        /\ \A i \in 1..Len(page) : ~IsChart(page[i])

Defined(m, field) == field \in DOMAIN m

\* the value of a field that is carried and holds no value
Undefined == "undefined"

\* C6: every member of both segments carries a velocity and a days_supply
\* value, and its days_supply holds a value exactly when its quantity is
\* defined and its velocity is greater than 0; it is undefined otherwise.
C6_DaysSupply ==
    HasReport =>
        \A m \in Range(top_info) \cup Range(bottom_info) :
            /\ Defined(m, "velocity")
            /\ Defined(m, "days_supply")
            /\ m["days_supply"] # Undefined <=>
                  /\ Defined(m, "quantity")
                  /\ m["quantity"] # Undefined
                  /\ m["velocity"] > 0


\* C7: no step of a report changes the loaded data set all_data.
C7_SourceUnchanged == [][all_data' = all_data]_vars

\* a report of some rows, generated after a report for another selection,
\* while the source frame still holds the rows of another store as well
C7_Witness ==
    /\ HasReport
    /\ df.rows # <<>>
    /\ first_report.set
    /\ first_report.selection # Selection(store_type, store_name)
    /\ \E i \in 1..Len(all_data[store_type].rows) :
          all_data[store_type].rows[i]["Store Name"] # store_name
    /\ Len(all_data[store_type].rows) > Len(df.rows)

\* C9: a report request runs to its end without an unhandled exception.
C9_NoUnhandledException == HasReport => error = NoError

====
